---- MODULE Spec2Model ----
(***************************************************************************)
(* Model of nurananto/ZunouBattle: manga-automation.js (generate command,  *)
(* v7.0 at the end of the file) read against spec.md.                      *)
(*                                                                         *)
(* A folder or identity name is a sequence of one-character strings, so    *)
(* that the regex test, toLowerCase and parseFloat are computed from the   *)
(* characters as the code does.  A number is an integer count of           *)
(* 1/Scale units (parseFloat keeps FracDigits decimal places).  A value    *)
(* that may be undefined (or NaN) is a sequence of length at most one:     *)
(* <<>> for undefined/NaN, <<v>> for the value v.  A timestamp is a record *)
(* [t, zone]: an instant in whole seconds and the zone suffix of its ISO   *)
(* string.                                                                 *)
(***************************************************************************)
EXTENDS Integers, Sequences, FiniteSets, TLC

\* ------------------------------------------------------------------ bounds
FracDigits == 2
MaxClock == 1
MaxViews == 1
MaxPages == 2

MaxNames == 3

\* ------------------------------------------------------------- characters
Digits == <<"0", "1", "2", "3", "4", "5", "6", "7", "8", "9">>

UpperCase == <<"A", "B", "C", "D", "E", "F", "G", "H", "I", "J", "K", "L", "M",
               "N", "O", "P", "Q", "R", "S", "T", "U", "V", "W", "X", "Y", "Z">>

LowerCase == <<"a", "b", "c", "d", "e", "f", "g", "h", "i", "j", "k", "l", "m",
               "n", "o", "p", "q", "r", "s", "t", "u", "v", "w", "x", "y", "z">>

IsDigit(c) == \E i \in 1..Len(Digits) : Digits[i] = c

DigitValue(c) == (CHOOSE i \in 1..Len(Digits) : Digits[i] = c) - 1

toLowerCaseChar(c) ==
    IF \E i \in 1..Len(UpperCase) : UpperCase[i] = c
    THEN LowerCase[CHOOSE i \in 1..Len(UpperCase) : UpperCase[i] = c]
    ELSE c

toLowerCase(s) == [i \in 1..Len(s) |-> toLowerCaseChar(s[i])]

RECURSIVE Pow10(_)
Pow10(k) == IF k = 0 THEN 1 ELSE 10 * Pow10(k - 1)

Scale == Pow10(FracDigits)

\* A value that may be missing: undefined (NaN for a number), or Some(v).
undefined == <<>>

NaN == <<>>

Some(v) == <<v>>

isNaN(x) == x = NaN

\* ------------------------------------------------ oneshot helper functions
ONESHOT == <<"o", "n", "e", "s", "h", "o", "t">>

isOneshotFolder(folderName) == toLowerCase(folderName) = ONESHOT

AllDigits(s, from, to) == \A i \in from..to : IsDigit(s[i])

\* /^\d+(\.\d+)?$/
isNumericChapter(folderName) ==
    \E k \in 1..Len(folderName) :
        /\ AllDigits(folderName, 1, k)
        /\ \/ k = Len(folderName)
           \/ /\ k + 1 < Len(folderName)
              /\ folderName[k + 1] = "."
              /\ AllDigits(folderName, k + 2, Len(folderName))

\* Length of the longest run of digits of s that starts at position from.
RECURSIVE DigitRun(_, _)
DigitRun(s, from) ==
    IF from <= Len(s) /\ IsDigit(s[from]) THEN 1 + DigitRun(s, from + 1) ELSE 0

\* Value of the digits s[from..to] read as a decimal integer.
RECURSIVE DigitsValue(_, _, _)
DigitsValue(s, from, to) ==
    IF to < from THEN 0
    ELSE 10 * DigitsValue(s, from, to - 1) + DigitValue(s[to])

\* Value of the digits s[from..to] read as a decimal fraction, in 1/Scale
\* units; digits after the first FracDigits are dropped.
FractionValue(s, from, to) ==
    LET n == to - from + 1
        used == IF n > FracDigits THEN FracDigits ELSE n
    IN  DigitsValue(s, from, from + used - 1) * Pow10(FracDigits - used)

\* parseFloat: the longest prefix digits [ "." digits ] of the string; NaN
\* when the string starts with neither a digit nor "." digit.
parseFloat(s) ==
    LET ip == DigitRun(s, 1)
        hasDot == ip + 1 <= Len(s) /\ s[ip + 1] = "."
        fp == IF hasDot THEN DigitRun(s, ip + 2) ELSE 0
    IN  IF ip = 0 /\ fp = 0 THEN NaN
        ELSE Some(DigitsValue(s, 1, ip) * Scale + FractionValue(s, ip + 2, ip + 1 + fp))

\* Mutant: the special chapter gets the sort value 0.
getChapterSortValue_Zero(folderName) ==
    IF isOneshotFolder(folderName) THEN Some(0) ELSE parseFloat(folderName)

getChapterSortValue(folderName) ==
    IF isOneshotFolder(folderName) THEN Some(0 - Scale) ELSE parseFloat(folderName)

getChapterNumber(folderName) ==
    IF isOneshotFolder(folderName) THEN Some(0) ELSE parseFloat(folderName)

getChapterTitle(folderName) ==
    IF isOneshotFolder(folderName) THEN <<"O", "n", "e", "s", "h", "o", "t">>
    ELSE <<"C", "h", "a", "p", "t", "e", "r", " ">> \o folderName

\* ---------------------------------------------------------- JS primitives
SeqToSet(s) == {s[i] : i \in 1..Len(s)}

includes(list, x) == \E i \in 1..Len(list) : list[i] = x

\* [...new Set(list)]: first occurrences, in order.
RECURSIVE Dedupe(_)
Dedupe(list) ==
    IF list = <<>> THEN <<>>
    ELSE LET front == Dedupe(SubSeq(list, 1, Len(list) - 1))
             x == list[Len(list)]
         IN  IF includes(front, x) THEN front ELSE Append(front, x)

\* All arrangements of the elements of a set as a sequence.
RECURSIVE Arrangements(_)
Arrangements(S) ==
    IF S = {} THEN {<<>>}
    ELSE UNION {{<<x>> \o p : p \in Arrangements(S \ {x})} : x \in S}

\* Array.prototype.sort with the comparator (a, b) => key[a] - key[b], all
\* keys being numbers: a stable ascending sort (each element goes after the
\* last element whose key is not greater).
RECURSIVE StableSort(_, _)
StableSort(list, key) ==
    IF list = <<>> THEN <<>>
    ELSE LET front == StableSort(SubSeq(list, 1, Len(list) - 1), key)
             x == list[Len(list)]
             pos == Cardinality({i \in 1..Len(front) : key[front[i]][1] <= key[x][1]})
         IN  SubSeq(front, 1, pos) \o <<x>> \o SubSeq(front, pos + 1, Len(front))

\* The arrays sort may leave behind.  A comparator that answers NaN is not a
\* consistent comparator, and the order is then implementation-defined: any
\* arrangement of the elements.
SortResults(list, key) ==
    IF \A i \in 1..Len(list) : ~isNaN(key[list[i]])
    THEN {StableSort(list, key)}
    ELSE Arrangements(SeqToSet(list))

\* .sort((a, b) => getChapterSortValue(a) - getChapterSortValue(b))
SortByChapterValue(list) ==
    SortResults(list, [name \in SeqToSet(list) |-> getChapterSortValue(name)])

\* A property key that is an array index ("0", "7", "12"; not "07", "3.5").
isArrayIndex(name) ==
    /\ Len(name) >= 1
    /\ AllDigits(name, 1, Len(name))
    /\ (Len(name) = 1 \/ name[1] /= "0")

isNotArrayIndex(name) == ~isArrayIndex(name)

\* Property enumeration order of an object (Object.keys, Object.values,
\* JSON.stringify) whose keys were inserted in the order inserted:
\* array-index keys ascending, then the other keys in insertion order.
ObjectKeys(inserted) ==
    LET indices == SelectSeq(inserted, isArrayIndex)
    IN  StableSort(indices, [name \in SeqToSet(indices) |-> parseFloat(name)])
            \o SelectSeq(inserted, isNotArrayIndex)

\* ------------------------------------------------------------- timestamps
WIB == "+07:00"

UTC == "Z"

\* new Date(isoString): the instant.
Instant(isoString) == isoString.t

\* The same instant written in the Asia/Jakarta zone.
convertToWIB(isoString) == [t |-> Instant(isoString), zone |-> WIB]

getWIBTimestamp(clock) == [t |-> clock, zone |-> WIB]

\* ---------------------------------------------------------------- manifest
PAGE == "page"

\* A manifest.json file: content is "missing" (no such file), "unparsable"
\* (reading or JSON.parse throws) or "json", and then the fields the
\* code reads, each possibly undefined.
NoFields ==
    [total_pages |-> undefined, totalPages |-> undefined, pages |-> undefined,
     encrypted |-> FALSE]

MissingManifest == [content |-> "missing", json |-> NoFields]

UnparsableManifest == [content |-> "unparsable", json |-> NoFields]

JsonManifest(fields) == [content |-> "json", json |-> fields]

\* loadManifest: Some(parsed manifest), or null when the file is missing or
\* reading/parsing it throws.
loadManifest(file) ==
    IF file.content = "json" THEN Some(file.json) ELSE undefined

\* Truthiness of a number that may be undefined.
TruthyNumber(x) == x /= undefined /\ x[1] /= 0

\* Mutant: the pages array is not counted.
getTotalPagesFromManifest_NoPagesArray(file) ==
    LET loaded == loadManifest(file)
        manifest == loaded[1]
    IN  IF loaded /= undefined
        THEN IF TruthyNumber(manifest.total_pages) THEN manifest.total_pages[1]
             ELSE IF TruthyNumber(manifest.totalPages) THEN manifest.totalPages[1]
             ELSE 0
        ELSE 0

getTotalPagesFromManifest(file) ==
    LET loaded == loadManifest(file)
        manifest == loaded[1]
    IN  IF loaded /= undefined
        THEN IF TruthyNumber(manifest.total_pages) THEN manifest.total_pages[1]
             ELSE IF TruthyNumber(manifest.totalPages) THEN manifest.totalPages[1]
             ELSE IF manifest.pages /= undefined THEN Len(manifest.pages[1])
             ELSE 0
        ELSE 0

\* ---------------------------------------------------- upload date resolver
\* manifestResult, folderResult: the trimmed output of the two git log
\* commands (undefined for the empty string); mtime: fs.statSync's time;
\* fault: the call that throws in this invocation, if any.
\* Mutant: the manifest's history is asked for locked chapters too.
getUploadDate_ManifestAlways(isLocked, manifestResult, folderResult, mtime, fault, clock) ==
    IF fault = "manifestQuery" THEN getWIBTimestamp(clock)
    ELSE IF manifestResult /= undefined THEN convertToWIB(manifestResult[1])
    ELSE IF fault = "folderQuery" THEN getWIBTimestamp(clock)
    ELSE IF folderResult /= undefined THEN convertToWIB(folderResult[1])
    ELSE IF fault = "stat" THEN getWIBTimestamp(clock)
    ELSE convertToWIB(mtime)

\* Mutant: every call has a catch of its own and the next source is tried.
getUploadDate_Chained(isLocked, manifestResult, folderResult, mtime, fault, clock) ==
    IF ~isLocked /\ fault /= "manifestQuery" /\ manifestResult /= undefined
    THEN convertToWIB(manifestResult[1])
    ELSE IF fault /= "folderQuery" /\ folderResult /= undefined
    THEN convertToWIB(folderResult[1])
    ELSE IF fault /= "stat" THEN convertToWIB(mtime)
    ELSE getWIBTimestamp(clock)

getUploadDate(isLocked, manifestResult, folderResult, mtime, fault, clock) ==
    IF ~isLocked /\ fault = "manifestQuery" THEN getWIBTimestamp(clock)
    ELSE IF ~isLocked /\ manifestResult /= undefined THEN convertToWIB(manifestResult[1])
    ELSE IF fault = "folderQuery" THEN getWIBTimestamp(clock)
    ELSE IF folderResult /= undefined THEN convertToWIB(folderResult[1])
    ELSE IF fault = "stat" THEN getWIBTimestamp(clock)
    ELSE convertToWIB(mtime)

\* -------------------------------------------------------------------- state
VARIABLES
    universe,   \* the entry names that occur in the work's directory or configuration
    disk,       \* per name: the directory entry, its manifest.json and its mtime
    gitlog,     \* per name: the earliest commit dates git log reports
    config,     \* manga-config.json
    mangaJson,  \* manga.json, the persisted catalog
    now,        \* wall clock, whole seconds
    exitCode,   \* how the generate run that has just ended ended ("none": none has)
    previous,   \* what that run loaded from manga.json (its oldMangaData)
    enumerated, \* what getChapterFolders answered that run (its allFolders)
    peakViews,  \* per name: the most views manga.json has recorded for it so far
    resolved,   \* the resolver applied to a list of names: arguments and results
    injected,   \* the calls that threw in the run that has just ended
    pendingData, \* pending-views.json, the views not yet added to manga.json
    encryption  \* the encryption run that has just ended: its selection and results

vars == <<universe, disk, gitlog, config, mangaJson, now, exitCode, previous,
          enumerated, peakViews, resolved, injected, pendingData, encryption>>

VIEW_THRESHOLD == 1

\* pending-views.json does not exist.
NoPendingFile == [content |-> "missing", pendingViews |-> 0]

\* pending-views.json with a count.
PendingFile(count) == [content |-> "json", pendingViews |-> count]

\* pending-views.json as a write that failed part-way leaves it.
TruncatedPendingFile == [content |-> "truncated", pendingViews |-> 0]

\* No encryption run has just ended.
NoEncryption ==
    [ran |-> FALSE, force |-> FALSE, findThrows |-> FALSE, gitConsulted |-> FALSE,
     gitManifests |-> {}, manifestsToProcess |-> {}, before |-> <<>>,
     returned |-> <<>>]

GitZone == "+09:00"

Epoch == [t |-> 0, zone |-> WIB]

NoEntry == [kind |-> "none", manifest |-> MissingManifest, mtime |-> [t |-> 0, zone |-> UTC]]

NoHistory == [manifest |-> undefined, folder |-> undefined]

NoChapters == [name \in {} |-> {}]

ONGOING == "ONGOING"

END == "END"

NoManga == [status |-> ONGOING, views |-> undefined, endChapter |-> undefined]

\* manga.json does not exist.
NoCatalog ==
    [exists |-> FALSE, parsable |-> FALSE, manga |-> NoManga, chapters |-> NoChapters,
     keys |-> <<>>, lastChapterUpdate |-> Epoch]

\* manga.json as a write that failed part-way leaves it: cut short, no JSON.
TruncatedCatalog == [NoCatalog EXCEPT !.exists = TRUE]

\* loadJSON('manga.json'): Some(document); null when the file is absent or
\* JSON.parse throws.
loadJSON(file) == IF file.exists /\ file.parsable THEN Some(file) ELSE undefined

\* manga-config.json with the fields the generate command reads; content says
\* whether readFileSync and JSON.parse succeed, hasLockedChapters whether the
\* document has a lockedChapters field.
ConfigDocument(lockedChapters) ==
    [content |-> "json", hasLockedChapters |-> TRUE, lockedChapters |-> lockedChapters,
     views |-> undefined, status |-> ONGOING, endChapter |-> undefined]

\* --------------------------------------------------- chapter folder functions
\* fs.readdirSync(...).filter(isDirectory).filter(not hidden).map(name)
\*   .filter(valid identity).sort(by sort value); [] when readdirSync throws.
\* listing is the directory's entry names in the order readdirSync gives them.
\* Mutant: readdirSync never throws.
getChapterFolders_NeverFails(listing, entries, readdirThrows) ==
    LET isDirectory(name) == entries[name].kind = "dir"
        notHidden(name) == name[1] /= "."
        valid(name) == isNumericChapter(name) \/ isOneshotFolder(name)
    IN  SortByChapterValue(
            SelectSeq(SelectSeq(SelectSeq(listing, isDirectory), notHidden), valid))

\* Mutant: files are taken for folders.
getChapterFolders_NoDirectoryFilter(listing, entries, readdirThrows) ==
    IF readdirThrows THEN {<<>>}
    ELSE LET notHidden(name) == name[1] /= "."
             valid(name) == isNumericChapter(name) \/ isOneshotFolder(name)
         IN  SortByChapterValue(SelectSeq(SelectSeq(listing, notHidden), valid))

getChapterFolders(listing, entries, readdirThrows) ==
    IF readdirThrows THEN {<<>>}
    ELSE LET isDirectory(name) == entries[name].kind = "dir"
             notHidden(name) == name[1] /= "."
             valid(name) == isNumericChapter(name) \/ isOneshotFolder(name)
         IN  SortByChapterValue(
                 SelectSeq(SelectSeq(SelectSeq(listing, isDirectory), notHidden), valid))

checkIfFolderExists(folderName, entries) == entries[folderName].kind /= "none"

\* Mutant: every run starts the views at 0.
getOldChapterViews_Reset(chapterName, oldMangaData) == 0

\* Mutant: the views are kept only while the folder exists.
getOldChapterViews_FolderOnly(chapterName, oldMangaData) ==
    IF oldMangaData = undefined \/ disk[chapterName].kind = "none" THEN 0
    ELSE IF chapterName \in DOMAIN oldMangaData[1].chapters
         THEN oldMangaData[1].chapters[chapterName].views
         ELSE 0

getOldChapterViews(chapterName, oldMangaData) ==
    IF oldMangaData = undefined THEN 0
    ELSE IF chapterName \in DOMAIN oldMangaData[1].chapters
         THEN oldMangaData[1].chapters[chapterName].views
         ELSE 0

\* The names the pre-pass of generateChaptersData reports as removed.
removedLockedChapters(conf, oldMangaData, entries) ==
    IF oldMangaData = undefined THEN {}
    ELSE {chapterName \in DOMAIN oldMangaData[1].chapters :
            /\ oldMangaData[1].chapters[chapterName].locked
            /\ ~checkIfFolderExists(chapterName, entries)
            /\ ~includes(conf.lockedChapters, chapterName)}

\* const totalPages = folderExists ? getTotalPagesFromManifest(chapterName) : 0
totalPagesOf(chapterName, entries) ==
    IF checkIfFolderExists(chapterName, entries)
    THEN getTotalPagesFromManifest(entries[chapterName].manifest)
    ELSE 0

\* Mutant: no chapter is locked.
isLockedOf_Never(chapterName, conf) == FALSE

\* Mutant: a record once locked stays locked.
isLockedOf_Sticky(chapterName, conf) ==
    \/ includes(conf.lockedChapters, chapterName)
    \/ /\ chapterName \in DOMAIN mangaJson.chapters
       /\ mangaJson.chapters[chapterName].locked

\* const isLocked = isInLockedList
isLockedOf(chapterName, conf) == includes(conf.lockedChapters, chapterName)

\* Mutant: a locked chapter without folder is dated anew on every run.
uploadDateOf_AlwaysFresh(chapterName, conf, oldMangaData, entries, history, fault, clock) ==
    IF checkIfFolderExists(chapterName, entries)
    THEN getUploadDate(isLockedOf(chapterName, conf), history[chapterName].manifest,
                       history[chapterName].folder,
                       entries[chapterName].mtime, fault[chapterName], clock)
    ELSE getWIBTimestamp(clock)

\* Mutant: a locked chapter keeps its old date whether or not its folder exists.
uploadDateOf_KeepWhenLocked(chapterName, conf, oldMangaData, entries, history, fault, clock) ==
    LET folderExists == checkIfFolderExists(chapterName, entries)
        isLocked == isLockedOf(chapterName, conf)
        hasOldChapter == /\ oldMangaData /= undefined
                         /\ chapterName \in DOMAIN oldMangaData[1].chapters
    IN  IF isLocked /\ hasOldChapter
        THEN oldMangaData[1].chapters[chapterName].uploadDate
        ELSE IF folderExists
             THEN getUploadDate(isLocked, history[chapterName].manifest,
                                history[chapterName].folder,
                                entries[chapterName].mtime, fault[chapterName], clock)
             ELSE getWIBTimestamp(clock)

\* Mutant: the old date is kept only for a record that was locked before.
uploadDateOf_IfWasLocked(chapterName, conf, oldMangaData, entries, history, fault, clock) ==
    LET folderExists == checkIfFolderExists(chapterName, entries)
        isLocked == isLockedOf(chapterName, conf)
        wasLocked == /\ oldMangaData /= undefined
                     /\ chapterName \in DOMAIN oldMangaData[1].chapters
                     /\ oldMangaData[1].chapters[chapterName].locked
    IN  IF folderExists
        THEN getUploadDate(isLocked, history[chapterName].manifest,
                           history[chapterName].folder,
                           entries[chapterName].mtime, fault[chapterName], clock)
        ELSE IF isLocked /\ wasLocked
             THEN oldMangaData[1].chapters[chapterName].uploadDate
             ELSE getWIBTimestamp(clock)

\* The uploadDate the loop body settles on.
uploadDateOf(chapterName, conf, oldMangaData, entries, history, fault, clock) ==
    LET folderExists == checkIfFolderExists(chapterName, entries)
        isLocked == isLockedOf(chapterName, conf)
        hasOldChapter == /\ oldMangaData /= undefined
                         /\ chapterName \in DOMAIN oldMangaData[1].chapters
    IN  IF isLocked /\ ~folderExists
        THEN IF hasOldChapter
             THEN oldMangaData[1].chapters[chapterName].uploadDate
             ELSE getWIBTimestamp(clock)
        ELSE IF folderExists
             THEN getUploadDate(isLocked, history[chapterName].manifest,
                                history[chapterName].folder,
                                entries[chapterName].mtime, fault[chapterName], clock)
             ELSE getWIBTimestamp(clock)

\* The body of sortedChapterNames.forEach for one chapterName.
chapterEntry(chapterName, conf, oldMangaData, entries, history, fault, clock) ==
    [title |-> getChapterTitle(chapterName),
     chapter |-> getChapterNumber(chapterName),
     folder |-> chapterName,
     uploadDate |-> uploadDateOf(chapterName, conf, oldMangaData, entries, history,
                                 fault, clock),
     totalPages |-> totalPagesOf(chapterName, entries),
     pages |-> totalPagesOf(chapterName, entries),
     locked |-> isLockedOf(chapterName, conf),
     views |-> getOldChapterViews(chapterName, oldMangaData)]

\* Mutant: lastChapterUpdate is the time of the run.
lastChapterUpdateOf_Now(chapters, keys, clock) == getWIBTimestamp(clock)

\* Mutant: the comparator is a - b, so the oldest date comes first.
lastChapterUpdateOf_Oldest(chapters, keys, clock) ==
    IF keys = <<>> THEN getWIBTimestamp(clock)
    ELSE LET oldestFirst ==
                 StableSort(keys, [name \in SeqToSet(keys) |->
                                       Some(Instant(chapters[name].uploadDate))])
         IN  chapters[oldestFirst[1]].uploadDate

\* allChapterDates.sort((a, b) => new Date(b.uploadDate) - new Date(a.uploadDate))[0]
\* over Object.values(chapters); the current time when there are no chapters.
lastChapterUpdateOf(chapters, keys, clock) ==
    IF keys = <<>> THEN getWIBTimestamp(clock)
    ELSE LET newestFirst ==
                 StableSort(keys, [name \in SeqToSet(keys) |->
                                       Some(0 - Instant(chapters[name].uploadDate))])
         IN  chapters[newestFirst[1]].uploadDate

\* Mutant: the records of the previous catalog are carried along.
allChapterNames_KeepOld(allFolders, conf) ==
    Dedupe(allFolders \o conf.lockedChapters \o mangaJson.keys)

\* Mutant: the folders add no names.
allChapterNames_LockedOnly(allFolders, conf) == Dedupe(conf.lockedChapters)

\* Mutant: the locked list adds no names.
allChapterNames_FoldersOnly(allFolders, conf) == Dedupe(allFolders)

\* [...allFolders, ...config.lockedChapters] through new Set: the names to sort.
allChapterNames(allFolders, conf) == Dedupe(allFolders \o conf.lockedChapters)

\* generateChaptersData, given the enumerator's answer and the array the sort
\* of the combined names leaves.
generateChaptersData(conf, oldMangaData, allFolders, sortedChapterNames, entries, history, fault, clock) ==
    LET chapters == [chapterName \in SeqToSet(sortedChapterNames) |->
                        chapterEntry(chapterName, conf, oldMangaData, entries,
                                     history, fault, clock)]
        keys == ObjectKeys(sortedChapterNames)
    IN  [chapters |-> chapters,
         keys |-> keys,
         lastChapterUpdate |-> lastChapterUpdateOf(chapters, keys, clock)]

\* ------------------------------------------------------------ input sets
FIVE == <<"5">>

ZERO == <<"0">>

THREE_AND_A_HALF == <<"3", ".", "5">>

ONESHOT_MIXED == <<"O", "n", "e", "S", "h", "o", "t">>

TEN == <<"1", "0">>

BONUS == <<"b", "o", "n", "u", "s">>

\* The sets of names one behaviour draws its folders, files and locked
\* entries from.
Universes == {{FIVE}, {ONESHOT, ZERO}, {ONESHOT, ONESHOT_MIXED}}

\* The manifest, history-log and view-counter collaborators vary only where
\* a single name is in play; with several names every folder has no manifest
\* and no history (its upload date is its mtime) and no chapter is viewed.
Detailed == Cardinality(universe) = 1

Pages(k) == [i \in 1..k |-> PAGE]

\* The page counts a manifest states: none and the most.
PageCounts == {0, MaxPages}

\* Parsed manifests that carry at most one source of the page count.
JsonManifests ==
    {JsonManifest(NoFields)}
    \cup {JsonManifest([NoFields EXCEPT !.total_pages = Some(k)]) : k \in PageCounts}
    \cup {JsonManifest([NoFields EXCEPT !.totalPages = Some(k)]) : k \in PageCounts}
    \cup {JsonManifest([NoFields EXCEPT !.pages = Some(Pages(k))]) : k \in PageCounts}

Steps == {"manifestQuery", "folderQuery", "stat"}

NoFault == [name \in universe |-> "none"]

\* No call throws.
NoInjection == [readdirThrows |-> FALSE, fault |-> NoFault, writeThrows |-> FALSE]

\* Every list without repetition of names of S.
Lists(S) == UNION {Arrangements(T) : T \in SUBSET S}

\* The resolver's probe before the names are resolved.
Unresolved(names) ==
    [names |-> names, done |-> FALSE, sortValue |-> <<>>, number |-> <<>>,
     sorted |-> <<>>]

\* --------------------------------------------------------------------- Init
Init ==
    /\ universe \in Universes
    /\ disk = [name \in universe |-> NoEntry]
    /\ gitlog = [name \in universe |-> NoHistory]
    /\ config = ConfigDocument(<<>>)
    /\ mangaJson = NoCatalog
    /\ now = 0
    /\ exitCode = "none"
    /\ previous = undefined
    /\ enumerated = <<>>
    /\ peakViews = [name \in universe |-> 0]
    /\ resolved = Unresolved(<<>>)
    /\ injected = NoInjection
    /\ pendingData = NoPendingFile
    /\ encryption = NoEncryption

\* ------------------------------------------------------------- environment
\* No generate run has just ended.
Idle ==
    /\ exitCode' = "none"
    /\ previous' = undefined
    /\ enumerated' = <<>>
    /\ injected' = NoInjection

Tick ==
    /\ now < MaxClock
    /\ now' = now + 1
    /\ Idle
    /\ UNCHANGED <<encryption, pendingData, resolved, universe, disk, gitlog, config, mangaJson, peakViews>>

\* The mtime fs.statSync reports for an entry changed at the time clock.  The
\* code reads it only when git log has no entry for the folder (and an entry
\* once logged stays), so it is recorded only then.
mtimeAt(name, clock) ==
    IF gitlog[name].folder = undefined THEN [t |-> clock, zone |-> UTC] ELSE NoEntry.mtime

\* A chapter folder is created.
Mkdir(name) ==
    /\ disk[name].kind = "none"
    /\ disk' = [disk EXCEPT ![name] =
                   [kind |-> "dir", manifest |-> MissingManifest,
                    mtime |-> mtimeAt(name, now)]]
    /\ Idle
    /\ UNCHANGED <<encryption, pendingData, resolved, universe, gitlog, config, mangaJson, now, peakViews>>

\* A plain file takes the name.
Touch(name) ==
    /\ Detailed
    /\ disk[name].kind = "none"
    /\ disk' = [disk EXCEPT ![name] =
                   [kind |-> "file", manifest |-> MissingManifest,
                    mtime |-> mtimeAt(name, now)]]
    /\ Idle
    /\ UNCHANGED <<encryption, pendingData, resolved, universe, gitlog, config, mangaJson, now, peakViews>>

\* The folder (or file) is deleted; the history log keeps its entries.
Remove(name) ==
    /\ disk[name].kind /= "none"
    /\ disk' = [disk EXCEPT ![name] = NoEntry]
    /\ Idle
    /\ UNCHANGED <<encryption, pendingData, resolved, universe, gitlog, config, mangaJson, now, peakViews>>

\* manifest.json is written into a chapter folder.
WriteManifest(name, file) ==
    /\ Detailed
    /\ disk[name].kind = "dir"
    /\ disk[name].manifest /= file
    /\ disk' = [disk EXCEPT ![name].manifest = file,
                            ![name].mtime = IF disk[name].manifest = MissingManifest
                                            THEN mtimeAt(name, now)
                                            ELSE @]
    /\ Idle
    /\ UNCHANGED <<encryption, pendingData, resolved, universe, gitlog, config, mangaJson, now, peakViews>>

\* The entry is committed: the log gains the first entry of each path that
\* has none yet.
Commit(name) ==
    /\ Detailed
    /\ disk[name].kind /= "none"
    /\ LET stamp == Some([t |-> now, zone |-> GitZone])
           h == gitlog[name]
           withFolder == IF h.folder = undefined THEN [h EXCEPT !.folder = stamp] ELSE h
           withBoth == IF /\ disk[name].manifest /= MissingManifest
                          /\ h.manifest = undefined
                       THEN [withFolder EXCEPT !.manifest = stamp]
                       ELSE withFolder
       IN  /\ withBoth /= h
           /\ gitlog' = [gitlog EXCEPT ![name] = withBoth]
    /\ disk' = [disk EXCEPT ![name].mtime = NoEntry.mtime]
    /\ Idle
    /\ UNCHANGED <<encryption, pendingData, resolved, universe, config, mangaJson, now, peakViews>>

\* manga-config.json is edited.
EditConfig(lockedChapters) ==
    /\ lockedChapters /= config.lockedChapters
    /\ config' = [config EXCEPT !.lockedChapters = lockedChapters]
    /\ Idle
    /\ UNCHANGED <<encryption, pendingData, resolved, universe, disk, gitlog, mangaJson, now, peakViews>>

\* ------------------------------------------------------------ view counter
\* The view counter adds the pending views of one chapter to its record
\* (commandUpdateChapterViews; the Worker of v7.0 does the same to manga.json).
commandUpdateChapterViews(chapterFolder, pendingViews) ==
    /\ Detailed
    /\ loadJSON(mangaJson) /= undefined
    /\ chapterFolder \in DOMAIN mangaJson.chapters
    /\ mangaJson.chapters[chapterFolder].views + pendingViews <= MaxViews
    /\ mangaJson' = [mangaJson EXCEPT !.chapters[chapterFolder].views = @ + pendingViews]
    /\ peakViews' = [peakViews EXCEPT ![chapterFolder] =
                         IF mangaJson'.chapters[chapterFolder].views > @
                         THEN mangaJson'.chapters[chapterFolder].views
                         ELSE @]
    /\ Idle
    /\ UNCHANGED <<encryption, pendingData, resolved, universe, disk, gitlog, config, now>>

\* ---------------------------------------------------------------- generate
\* Mutant: a configuration that cannot be read is taken as an empty one.
loadConfig_Lenient(file) == Some(file)

\* loadConfig: the parsed document; process.exit(1), here undefined, when
\* readFileSync or JSON.parse throws.
loadConfig(file) == IF file.content = "json" THEN Some(file) ELSE undefined

\* totalViews: the views of the old catalog's manga section when it has
\* them, else config.views || 0.
\* Mutant: the views always start from the configuration.
totalViewsOf_FromConfig(conf, oldMangaData) ==
    IF TruthyNumber(conf.views) THEN conf.views[1] ELSE 0

totalViewsOf(conf, oldMangaData) ==
    IF oldMangaData /= undefined /\ oldMangaData[1].manga.views /= undefined
    THEN oldMangaData[1].manga.views[1]
    ELSE IF TruthyNumber(conf.views) THEN conf.views[1] ELSE 0

\* mangaJSON.manga.endChapter, set only if config.status === 'END' &&
\* config.endChapter.
\* Mutant: the status is not looked at.
endChapterOf_AnyStatus(conf) == conf.endChapter

endChapterOf(conf) ==
    IF conf.status = END /\ conf.endChapter /= undefined THEN conf.endChapter
    ELSE undefined

\* The catalog document commandGenerate builds: the manga section (its
\* status, views and endChapter), the chapters object, the order in which
\* JSON.stringify writes its keys, and lastChapterUpdate.  (The descriptive
\* fields copied from the configuration and lastUpdated, the time of the run,
\* are left out.)
mangaJSONOf(conf, oldMangaData, data) ==
    [exists |-> TRUE,
     parsable |-> TRUE,
     manga |-> [status |-> conf.status,
                views |-> Some(totalViewsOf(conf, oldMangaData)),
                endChapter |-> endChapterOf(conf)],
     chapters |-> data.chapters,
     keys |-> data.keys,
     lastChapterUpdate |-> data.lastChapterUpdate]

\* saveJSON: the file is replaced and true returned, or writeFileSync throws
\* and false is returned.  writeFileSync opens the file truncating it and
\* then writes: when it throws, the file is as it was (the open failed) or
\* cut short (a write failed).
saveJSON(document, writeThrows) ==
    IF writeThrows
    THEN /\ mangaJson' \in {mangaJson, TruncatedCatalog}
         /\ exitCode' = "exit1"
         /\ peakViews' = peakViews
    ELSE /\ mangaJson' = document
         /\ exitCode' = "exit0"
         /\ peakViews' = [name \in universe |->
                             IF /\ name \in DOMAIN document.chapters
                                /\ document.chapters[name].views > peakViews[name]
                             THEN document.chapters[name].views
                             ELSE peakViews[name]]

\* One run of the generate command: loadConfig (process.exit(1) when the
\* configuration cannot be read), the old catalog, generateChaptersData (a
\* TypeError that nothing catches when config.lockedChapters is undefined),
\* the new document, saveJSON.
commandGenerate(readdirThrows, fault, writeThrows) ==
    /\ injected' = [readdirThrows |-> readdirThrows, fault |-> fault,
                    writeThrows |-> writeThrows]
    /\ IF loadConfig(config) = undefined
       THEN /\ exitCode' = "exit1"
            /\ previous' = undefined
            /\ enumerated' = <<>>
            /\ UNCHANGED <<mangaJson, peakViews>>
       ELSE LET old == loadJSON(mangaJson)
            IN  /\ previous' = old
                /\ \E listing \in Arrangements({name \in universe : disk[name].kind /= "none"}) :
                   \E allFolders \in getChapterFolders(listing, disk, readdirThrows) :
                      /\ enumerated' = allFolders
                      /\ IF ~config.hasLockedChapters
                         THEN /\ exitCode' = "TypeError"
                              /\ UNCHANGED <<mangaJson, peakViews>>
                         ELSE \E sortedChapterNames \in
                                    SortByChapterValue(allChapterNames(allFolders, config)) :
                                 saveJSON(mangaJSONOf(config, old,
                                              generateChaptersData(config, old, allFolders,
                                                                   sortedChapterNames, disk,
                                                                   gitlog, fault, now)),
                                          writeThrows)
    /\ UNCHANGED <<encryption, pendingData, resolved, universe, disk, gitlog, config, now>>

Generate == commandGenerate(FALSE, NoFault, FALSE)

\* A run in which one collaborator call of the upload date resolver throws.
GenerateWithFault(name, step) ==
    /\ Detailed
    /\ disk[name].kind /= "none"
    /\ commandGenerate(FALSE, [NoFault EXCEPT ![name] = step], FALSE)

\* A run in which fs.readdirSync throws.
GenerateReaddirFails == commandGenerate(TRUE, NoFault, FALSE)

\* A run in which writing manga.json throws.
GenerateWriteFails == commandGenerate(FALSE, NoFault, TRUE)

\* --------------------------------------------------------------------- Next
Next ==
    \/ Tick
    \/ \E name \in universe : Mkdir(name)
    \/ \E name \in universe : Touch(name)
    \/ \E name \in universe : Remove(name)
    \/ \E name \in universe : \E file \in JsonManifests \cup {UnparsableManifest} :
          WriteManifest(name, file)
    \/ \E name \in universe : Commit(name)
    \/ \E lockedChapters \in Lists(universe) : EditConfig(lockedChapters)
    \/ \E name \in universe : \E pendingViews \in 1..MaxViews :
          commandUpdateChapterViews(name, pendingViews)
    \/ Generate
    \/ \E name \in universe : \E step \in Steps : GenerateWithFault(name, step)
    \/ GenerateReaddirFails
    \/ GenerateWriteFails

Spec == Init /\ [][Next]_vars

\* --------------------------------------- the generate command and its files
\* The manga-config.json documents: with or without lockedChapters, views,
\* status END, endChapter.
ConfigDocuments ==
    {[content |-> "json", hasLockedChapters |-> has, lockedChapters |-> locked,
      views |-> views, status |-> status, endChapter |-> endChapter] :
        has \in BOOLEAN, locked \in {<<>>, <<FIVE>>},
        views \in {undefined, Some(MaxViews)}, status \in {ONGOING, END},
        endChapter \in {undefined, Some(FIVE)}}

\* manga-config.json is written anew.
WriteConfig(document) ==
    /\ document /= config
    /\ document.hasLockedChapters \/ document.lockedChapters = <<>>
    /\ config' = document
    /\ Idle
    /\ UNCHANGED <<encryption, pendingData, resolved, universe, disk, gitlog, mangaJson, now, peakViews>>

\* manga-config.json is deleted, or left with a text that is no JSON.
BreakConfig(content) ==
    /\ config.content /= content
    /\ config' = [ConfigDocument(<<>>) EXCEPT !.content = content]
    /\ Idle
    /\ UNCHANGED <<encryption, pendingData, resolved, universe, disk, gitlog, mangaJson, now, peakViews>>

\* A reader is counted: the site adds one to pendingViews.
RecordView ==
    /\ pendingData.content = "json"
    /\ pendingData.pendingViews < MaxViews
    /\ pendingData' = PendingFile(pendingData.pendingViews + 1)
    /\ Idle
    /\ UNCHANGED <<encryption, resolved, universe, disk, gitlog, config, mangaJson, now, peakViews>>

\* ensurePendingFilesExist: pending-views.json is created with 0 views if
\* it does not exist.
ensurePendingFilesExist(file) == IF file.content = "missing" THEN PendingFile(0) ELSE file

\* commandUpdateViews: the pending views of the work are added to
\* manga.views and manga.json saved; if that succeeds pendingViews is set to
\* 0 and pending-views.json saved.  Nothing is written when a file cannot be
\* loaded or pendingViews is below the threshold.  A save that throws leaves
\* its file as it was or cut short.
commandUpdateViews(mangaWriteThrows, pendingWriteThrows) ==
    LET ensured == ensurePendingFilesExist(pendingData)
        manga == loadJSON(mangaJson)
        pendingViews == ensured.pendingViews
    IN  /\ IF ensured.content /= "json" \/ manga = undefined
           THEN /\ pendingData' = ensured
                /\ mangaJson' = mangaJson
           ELSE IF pendingViews < VIEW_THRESHOLD
           THEN /\ pendingData' = ensured
                /\ mangaJson' = mangaJson
           ELSE IF mangaWriteThrows
           THEN /\ pendingData' = ensured
                /\ mangaJson' \in {mangaJson, TruncatedCatalog}
           ELSE /\ mangaJson' = [mangaJson EXCEPT !.manga.views = Some(@[1] + pendingViews)]
                /\ IF pendingWriteThrows
                   THEN pendingData' \in {ensured, TruncatedPendingFile}
                   ELSE pendingData' = PendingFile(0)
        /\ (manga /= undefined /\ ensured.content = "json") =>
               manga[1].manga.views[1] + pendingViews <= MaxViews + 1
        /\ Idle
        /\ UNCHANGED <<encryption, resolved, universe, disk, gitlog, config, now, peakViews>>

InitCommand == Init /\ universe = {FIVE}

NextCommand ==
    \/ \E name \in universe : Mkdir(name)
    \/ \E name \in universe : Remove(name)
    \/ \E name \in universe : WriteManifest(name, UnparsableManifest)
    \/ \E document \in ConfigDocuments : WriteConfig(document)
    \/ \E content \in {"missing", "unparsable"} : BreakConfig(content)
    \/ RecordView
    \/ commandUpdateViews(FALSE, FALSE)
    \/ Generate
    \/ \E name \in universe : \E step \in Steps : GenerateWithFault(name, step)
    \/ GenerateReaddirFails
    \/ GenerateWriteFails

SpecCommand == InitCommand /\ [][NextCommand]_vars

\* -------------------------------------------------- the work's view counter
InitViews == Init /\ universe = {FIVE}

NextViews ==
    \/ \E name \in universe : Mkdir(name)
    \/ \E name \in universe : Remove(name)
    \/ Generate
    \/ GenerateWriteFails
    \/ RecordView
    \/ \E mangaWriteThrows, pendingWriteThrows \in BOOLEAN :
          commandUpdateViews(mangaWriteThrows, pendingWriteThrows)

SpecViews == InitViews /\ [][NextViews]_vars

\* --------------------------------------------------- the folder enumerator
DOT_GIT == <<".", "g", "i", "t">>

\* The names in the work's directory: chapter names, a name that is none,
\* and a hidden one; each is absent, a directory or a plain file.
EnumeratorNames == {ONESHOT_MIXED, TEN, THREE_AND_A_HALF, BONUS, DOT_GIT}

DirectoryEntries == {NoEntry, [NoEntry EXCEPT !.kind = "dir"], [NoEntry EXCEPT !.kind = "file"]}

InitEnumerator ==
    /\ universe = EnumeratorNames
    /\ disk \in [universe -> DirectoryEntries]
    /\ gitlog = [name \in universe |-> NoHistory]
    /\ config = ConfigDocument(<<>>)
    /\ mangaJson = NoCatalog
    /\ now = 0
    /\ exitCode = "none"
    /\ previous = undefined
    /\ enumerated = <<>>
    /\ peakViews = [name \in universe |-> 0]
    /\ resolved = Unresolved(<<>>)
    /\ injected = NoInjection
    /\ pendingData = NoPendingFile
    /\ encryption = NoEncryption

NextEnumerator == Generate \/ GenerateReaddirFails

SpecEnumerator == InitEnumerator /\ [][NextEnumerator]_vars

\* ------------------------------------------- the resolver as a pure function
\* The names the resolver is applied to: both spellings of the special name,
\* integers, a decimal, and a name that is no chapter identity.
NamePool == {ONESHOT, ONESHOT_MIXED, ZERO, FIVE, TEN, THREE_AND_A_HALF, BONUS}

NameLists == {names \in Lists(NamePool) : Len(names) <= MaxNames}

InitResolver ==
    /\ universe = {}
    /\ disk = [name \in universe |-> NoEntry]
    /\ gitlog = [name \in universe |-> NoHistory]
    /\ config = ConfigDocument(<<>>)
    /\ mangaJson = NoCatalog
    /\ now = 0
    /\ exitCode = "none"
    /\ previous = undefined
    /\ enumerated = <<>>
    /\ peakViews = [name \in universe |-> 0]
    /\ resolved \in {Unresolved(names) : names \in NameLists}
    /\ injected = NoInjection
    /\ pendingData = NoPendingFile
    /\ encryption = NoEncryption

\* getChapterSortValue and getChapterNumber of every name, and the array
\* names.sort((a, b) => getChapterSortValue(a) - getChapterSortValue(b)) leaves.
SortChapterNames ==
    /\ ~resolved.done
    /\ \E sortedChapterNames \in SortByChapterValue(resolved.names) :
          resolved' = [names |-> resolved.names,
                       done |-> TRUE,
                       sortValue |-> [k \in 1..Len(resolved.names) |->
                                         getChapterSortValue(resolved.names[k])],
                       number |-> [k \in 1..Len(resolved.names) |->
                                      getChapterNumber(resolved.names[k])],
                       sorted |-> sortedChapterNames]
    /\ UNCHANGED <<universe, disk, gitlog, config, mangaJson, now, exitCode,
                   previous, enumerated, peakViews, injected, pendingData, encryption>>

NextResolver == SortChapterNames

SpecResolver == InitResolver /\ [][NextResolver]_vars

\* ------------------------------------------------------------ the encryption
\* encrypt-manifest.js.  A page entry of a manifest is the text of a page URL
\* (PAGE) or what encryptText makes of a text: the IV as 32 hex digits, a
\* colon, and the ciphertext as hex digits.
ENCRYPTED_PAGE == "iv:aes(page)"

TWICE_ENCRYPTED_PAGE == "iv:aes(iv:aes(page))"

EMPTY_TEXT == ""

\* encryptText: AES-256-CBC under a fresh IV of whatever text it is given.
encryptText(text) ==
    CASE text = PAGE -> ENCRYPTED_PAGE
      [] text = ENCRYPTED_PAGE -> TWICE_ENCRYPTED_PAGE

\* isEncrypted: the text is 32 hex digits, a colon and hex digits.  A page
\* URL and the empty text are not.
isEncrypted(text) == text \in {ENCRYPTED_PAGE, TWICE_ENCRYPTED_PAGE}

\* getAllManifestsInRepo: every manifest.json that find reports, named by its
\* chapter folder; none when find throws.
getAllManifestsInRepo(findThrows) ==
    IF findThrows THEN {}
    ELSE {name \in universe :
             disk[name].kind = "dir" /\ disk[name].manifest.content /= "missing"}

\* getUnencryptedManifests: the manifests that parse, have a non-empty pages
\* array and a first page that is not encrypted.
getUnencryptedManifests(findThrows) ==
    {name \in getAllManifestsInRepo(findThrows) :
        LET loaded == loadManifest(disk[name].manifest)
        IN  /\ loaded /= undefined
            /\ loaded[1].pages /= undefined
            /\ Len(loaded[1].pages[1]) > 0
            /\ ~isEncrypted(loaded[1].pages[1][1])}

\* Mutant: git detection comes first.
getManifestsToEncrypt_GitFirst(force, findThrows, gitManifests) ==
    IF force
    THEN [manifests |-> getAllManifestsInRepo(findThrows), gitConsulted |-> FALSE]
    ELSE IF gitManifests /= {}
    THEN [manifests |-> gitManifests, gitConsulted |-> TRUE]
    ELSE [manifests |-> getUnencryptedManifests(findThrows), gitConsulted |-> TRUE]

\* getManifestsToEncrypt: what main will process, and whether
\* getModifiedManifestsFromGit was called (gitManifests is what it answers).
getManifestsToEncrypt(force, findThrows, gitManifests) ==
    IF force
    THEN [manifests |-> getAllManifestsInRepo(findThrows), gitConsulted |-> FALSE]
    ELSE IF getUnencryptedManifests(findThrows) /= {}
    THEN [manifests |-> getUnencryptedManifests(findThrows), gitConsulted |-> FALSE]
    ELSE [manifests |-> gitManifests, gitConsulted |-> TRUE]

\* encryptManifest on a manifest file: what it returns and the file it leaves.
\* Nothing is written when the file does not parse (the catch), has no pages
\* array, or has an encrypted first page; the first page of an empty array is
\* read as the empty text.  Otherwise every entry goes through encryptText.
encryptManifest(file) ==
    LET loaded == loadManifest(file)
        pages == loaded[1].pages[1]
        firstPage == IF Len(pages) > 0 THEN pages[1] ELSE EMPTY_TEXT
    IN  IF loaded = undefined \/ loaded[1].pages = undefined
        THEN [returned |-> FALSE, file |-> file]
        ELSE IF isEncrypted(firstPage)
        THEN [returned |-> FALSE, file |-> file]
        ELSE [returned |-> TRUE,
              file |-> JsonManifest([loaded[1] EXCEPT
                          !.pages = Some([i \in 1..Len(pages) |-> encryptText(pages[i])]),
                          !.encrypted = TRUE])]

\* The pages arrays an uploader writes: page URLs, entries already encrypted,
\* or both, in any order.
PageLists == UNION {[1..k -> {PAGE, ENCRYPTED_PAGE}] : k \in 0..MaxPages}

\* The manifests an uploader writes.
UploadedManifests ==
    {UnparsableManifest, JsonManifest(NoFields)}
    \cup {JsonManifest([NoFields EXCEPT !.pages = Some(pages)]) : pages \in PageLists}

\* A chapter is uploaded: its folder, with its manifest.json.
UploadChapter(name, file) ==
    /\ disk' = [disk EXCEPT ![name] =
                   [kind |-> "dir", manifest |-> file, mtime |-> NoEntry.mtime]]
    /\ encryption' = NoEncryption
    /\ UNCHANGED <<pendingData, resolved, universe, gitlog, config, mangaJson, now,
                   exitCode, previous, enumerated, peakViews, injected>>

\* main of encrypt-manifest.js: selects the manifests and applies
\* encryptManifest to each.
main(force, findThrows, gitManifests) ==
    LET selection == getManifestsToEncrypt(force, findThrows, gitManifests)
        manifestsToProcess == selection.manifests
    IN  /\ gitManifests \subseteq getAllManifestsInRepo(FALSE)
        /\ disk' = [name \in universe |->
                       IF name \in manifestsToProcess
                       THEN [disk[name] EXCEPT
                                !.manifest = encryptManifest(disk[name].manifest).file]
                       ELSE disk[name]]
        /\ encryption' =
              [ran |-> TRUE, force |-> force, findThrows |-> findThrows,
               gitConsulted |-> selection.gitConsulted,
               gitManifests |-> gitManifests,
               manifestsToProcess |-> manifestsToProcess,
               before |-> [name \in manifestsToProcess |-> disk[name].manifest],
               returned |-> [name \in manifestsToProcess |->
                                encryptManifest(disk[name].manifest).returned]]
        /\ UNCHANGED <<pendingData, resolved, universe, gitlog, config, mangaJson, now,
                       exitCode, previous, enumerated, peakViews, injected>>

\* Smart detection.
Encrypt == \E gitManifests \in SUBSET universe : main(FALSE, FALSE, gitManifests)

\* FORCE_SCAN_ALL=true.
EncryptForced == \E gitManifests \in SUBSET universe : main(TRUE, FALSE, gitManifests)

\* find throws.
EncryptFindFails ==
    \E force \in BOOLEAN, gitManifests \in SUBSET universe : main(force, TRUE, gitManifests)

EncryptNames == {FIVE, TEN}

InitEncrypt ==
    /\ universe = EncryptNames
    /\ disk = [name \in universe |-> NoEntry]
    /\ gitlog = [name \in universe |-> NoHistory]
    /\ config = ConfigDocument(<<>>)
    /\ mangaJson = NoCatalog
    /\ now = 0
    /\ exitCode = "none"
    /\ previous = undefined
    /\ enumerated = <<>>
    /\ peakViews = [name \in universe |-> 0]
    /\ resolved = Unresolved(<<>>)
    /\ injected = NoInjection
    /\ pendingData = NoPendingFile
    /\ encryption = NoEncryption

NextEncrypt ==
    \/ \E name \in universe, file \in UploadedManifests : UploadChapter(name, file)
    \/ Encrypt
    \/ EncryptForced
    \/ EncryptFindFails

SpecEncrypt == InitEncrypt /\ [][NextEncrypt]_vars

\* =================================================================== claims
\* A generate run has just ended with manga.json written; disk, gitlog, config
\* and now are what the run saw, previous is the catalog it loaded.
Ran == exitCode = "exit0"

NewChapters == mangaJson.chapters

HadRecord(i) == previous /= undefined /\ i \in DOMAIN previous[1].chapters

OldRecord(i) == previous[1].chapters[i]

InLockedList(i) == \E k \in 1..Len(config.lockedChapters) : config.lockedChapters[k] = i

FolderExists(i) == disk[i].kind /= "none"

Enumerated(i) == \E k \in 1..Len(enumerated) : enumerated[k] = i

\* C1: after a generate run every record's locked field is true exactly when
\* its identity is in the configuration's lockedChapters list, whatever the
\* previous catalog recorded and whether or not its folder exists.
C1_LockedIffListed ==
    Ran => \A i \in DOMAIN NewChapters : NewChapters[i].locked <=> InLockedList(i)

\* C1 witness: a record the previous catalog held as locked, whose folder
\* exists, comes out unlocked because the list no longer names it.
C1_Witness ==
    /\ Ran
    /\ \E i \in DOMAIN NewChapters :
          /\ HadRecord(i)
          /\ OldRecord(i).locked
          /\ FolderExists(i)
          /\ ~InLockedList(i)
          /\ ~NewChapters[i].locked

\* C2: a listed identity without folder keeps the uploadDate and views of
\* its previous record (locked, 0 pages); without a previous record it gets
\* the current timestamp and 0 views.
C2_LockedAbsentKeepsDate ==
    Ran => \A i \in universe :
        (InLockedList(i) /\ ~FolderExists(i)) =>
            /\ i \in DOMAIN NewChapters
            /\ NewChapters[i].locked
            /\ NewChapters[i].totalPages = 0
            /\ IF HadRecord(i)
               THEN /\ NewChapters[i].uploadDate = OldRecord(i).uploadDate
                    /\ NewChapters[i].views = OldRecord(i).views
               ELSE /\ NewChapters[i].uploadDate = getWIBTimestamp(now)
                    /\ NewChapters[i].views = 0

\* C2 witness: a listed identity without folder whose previous record was
\* dated before this run and had been viewed.
C2_Witness ==
    /\ Ran
    /\ \E i \in universe :
          /\ InLockedList(i)
          /\ ~FolderExists(i)
          /\ HadRecord(i)
          /\ OldRecord(i).views > 0
          /\ Instant(OldRecord(i).uploadDate) < now
          /\ NewChapters[i].uploadDate = OldRecord(i).uploadDate

\* The identities the stale-lock pre-pass marks: locked in the previous
\* catalog, no folder, not in the current list.
StaleLock(i) ==
    /\ HadRecord(i)
    /\ OldRecord(i).locked
    /\ ~FolderExists(i)
    /\ ~InLockedList(i)

\* C3: an identity locked in the previous catalog, without folder and no
\* longer listed, has no record in the new chapter map.
C3_StaleLockPruned ==
    Ran => \A i \in universe : StaleLock(i) => i \notin DOMAIN NewChapters

\* C3 witness: a run that met such an identity.
C3_Witness == Ran /\ \E i \in universe : StaleLock(i) /\ i \notin DOMAIN NewChapters

\* C4 as claimed: every previous record that is not a stale lock is in the
\* new chapter map.
C4_OnlyStaleLocksDropped ==
    Ran => \A i \in universe :
        (HadRecord(i) /\ ~StaleLock(i)) => i \in DOMAIN NewChapters

\* C4 amended: a previous record is in the new chapter map exactly when the
\* run enumerated its folder or the current list names it.
C4_KeptIffEnumeratedOrListed ==
    Ran => \A i \in universe :
        HadRecord(i) => (i \in DOMAIN NewChapters <=> (Enumerated(i) \/ InLockedList(i)))

\* C4 witness: a previously unlocked record is dropped with its folder.
C4_Witness ==
    /\ Ran
    /\ \E i \in universe :
          /\ HadRecord(i)
          /\ ~OldRecord(i).locked
          /\ ~FolderExists(i)
          /\ i \notin DOMAIN NewChapters

\* C5: lastChapterUpdate is the uploadDate of a record that none exceeds,
\* and the time of the run when there is no record.
C5_LastChapterUpdateIsMax ==
    Ran =>
        IF DOMAIN NewChapters = {}
        THEN mangaJson.lastChapterUpdate = getWIBTimestamp(now)
        ELSE /\ \E i \in DOMAIN NewChapters :
                   mangaJson.lastChapterUpdate = NewChapters[i].uploadDate
             /\ \A i \in DOMAIN NewChapters :
                   NewChapters[i].uploadDate.t <= mangaJson.lastChapterUpdate.t

\* C5 witness: the newest record is a locked one, an unlocked one is older.
C5_Witness ==
    /\ Ran
    /\ \E i, j \in DOMAIN NewChapters :
          /\ NewChapters[i].locked
          /\ ~NewChapters[j].locked
          /\ NewChapters[j].uploadDate.t < NewChapters[i].uploadDate.t
          /\ mangaJson.lastChapterUpdate = NewChapters[i].uploadDate

\* What the resolver is to answer for the names of the pool, in units of
\* 1/Scale: the special spellings, and each numbered name's value.
SpecialNames == {ONESHOT, ONESHOT_MIXED}

NumberedValue ==
    (ZERO :> 0) @@ (FIVE :> 5 * Scale) @@ (TEN :> 10 * Scale)
    @@ (THREE_AND_A_HALF :> 3 * Scale + (5 * Scale) \div 10)

PositionIn(list, name) == CHOOSE k \in 1..Len(list) : list[k] = name

\* C6: a special name resolves to sort value -1 and number 0, a numbered name
\* to its numeric value for both; and when the sorted names are all chapter
\* identities, every special one stands before every numbered one.
C6_SpecialSortsFirst ==
    resolved.done =>
        /\ \A k \in 1..Len(resolved.names) :
              /\ resolved.names[k] \in SpecialNames =>
                    /\ resolved.sortValue[k] = <<0 - Scale>>
                    /\ resolved.number[k] = <<0>>
              /\ resolved.names[k] \in DOMAIN NumberedValue =>
                    /\ resolved.sortValue[k] = <<NumberedValue[resolved.names[k]]>>
                    /\ resolved.number[k] = <<NumberedValue[resolved.names[k]]>>
        /\ (\A k \in 1..Len(resolved.names) :
                resolved.names[k] \in SpecialNames \cup DOMAIN NumberedValue) =>
              /\ Len(resolved.sorted) = Len(resolved.names)
              /\ \A a, b \in 1..Len(resolved.sorted) :
                    (/\ resolved.sorted[a] \in SpecialNames
                     /\ resolved.sorted[b] \in DOMAIN NumberedValue) => a < b

\* C6 witness: the special name was given after "0" and stands before it
\* once sorted.
C6_Witness ==
    /\ resolved.done
    /\ \E a, b \in 1..Len(resolved.names) :
          /\ resolved.names[a] = ZERO
          /\ resolved.names[b] \in SpecialNames
          /\ a < b
          /\ PositionIn(resolved.sorted, resolved.names[b])
                 < PositionIn(resolved.sorted, ZERO)

\* The sort key the claims give a name of the pool.
SortKeyOf(name) == IF name \in SpecialNames THEN 0 - Scale ELSE NumberedValue[name]

\* C7 as claimed: the keys of the persisted chapters object stand in ascending
\* order of sort key, the special identity first.
C7_PersistedInSortOrder ==
    Ran => \A a, b \in 1..Len(mangaJson.keys) :
        a < b => SortKeyOf(mangaJson.keys[a]) <= SortKeyOf(mangaJson.keys[b])

\* C8: every record's views are those of the previous catalog's record of
\* the same identity, and 0 when there is none.
C8_ViewsCarriedForward ==
    Ran => \A i \in DOMAIN NewChapters :
        NewChapters[i].views = IF HadRecord(i) THEN OldRecord(i).views ELSE 0

\* C8 witness: an unlocked chapter with folder that had been viewed keeps
\* its views through the run.
C8_Witness ==
    /\ Ran
    /\ \E i \in DOMAIN NewChapters :
          /\ HadRecord(i)
          /\ OldRecord(i).views > 0
          /\ FolderExists(i)
          /\ ~InLockedList(i)
          /\ NewChapters[i].views = OldRecord(i).views

\* C9 as claimed: the views a catalog records for an identity are never
\* fewer than any earlier catalog recorded for it.
C9_ViewsNeverDecrease ==
    \A i \in DOMAIN mangaJson.chapters : mangaJson.chapters[i].views >= peakViews[i]

\* C9 amended: from the catalog a run loads to the catalog it writes, the
\* views of an identity that has a record in both do not decrease.
C9_ViewsKeptBetweenConsecutiveCatalogs ==
    Ran => \A i \in DOMAIN NewChapters :
        HadRecord(i) => NewChapters[i].views >= OldRecord(i).views

\* C9 witness: a viewed chapter whose folder is gone stays in the catalog
\* through its lock, views undiminished.
C9_Witness ==
    /\ Ran
    /\ \E i \in DOMAIN NewChapters :
          /\ HadRecord(i)
          /\ OldRecord(i).views > 0
          /\ ~FolderExists(i)
          /\ NewChapters[i].views >= OldRecord(i).views

\* The count a manifest.json states: its count field, else the length of its
\* pages array; 0 when the file is missing or is not JSON.
StatedPages(file) ==
    IF file.content /= "json" THEN 0
    ELSE IF file.json.total_pages /= <<>> THEN file.json.total_pages[1]
    ELSE IF file.json.totalPages /= <<>> THEN file.json.totalPages[1]
    ELSE IF file.json.pages /= <<>> THEN Len(file.json.pages[1])
    ELSE 0

Directories == {i \in universe : disk[i].kind = "dir"}

\* C11: the keys of the new chapter map are the enumerated folders together
\* with the locked list, less the stale locks; a listed identity without
\* folder has a record, and a folder that is not listed an unlocked one.
C11_KeysAreFoldersAndLocked ==
    Ran =>
        /\ DOMAIN NewChapters =
              ((IF injected.readdirThrows THEN {} ELSE Directories)
                  \cup {i \in universe : InLockedList(i)})
              \ {i \in universe : StaleLock(i)}
        /\ \A i \in universe :
              /\ (InLockedList(i) /\ ~FolderExists(i)) => i \in DOMAIN NewChapters
              /\ (i \in Directories /\ ~InLockedList(i) /\ ~injected.readdirThrows) =>
                    (i \in DOMAIN NewChapters /\ ~NewChapters[i].locked)

\* C11 witness: one run yields a ghost record and the unlocked record of a
\* folder the configuration does not know.
C11_Witness ==
    /\ Ran
    /\ \E i, j \in DOMAIN NewChapters :
          /\ InLockedList(i)
          /\ ~FolderExists(i)
          /\ j \in Directories
          /\ ~InLockedList(j)
          /\ ~NewChapters[j].locked

\* The call of the upload date resolver for i that threw, if one did: a
\* call throws only if the resolver gets to it.
ManifestHistory(i) == gitlog[i].manifest

FolderHistory(i) == gitlog[i].folder

AsksManifest(i) == ~InLockedList(i)

GetsToFolder(i) == ~AsksManifest(i) \/ ManifestHistory(i) = <<>>

GetsToStat(i) == GetsToFolder(i) /\ FolderHistory(i) = <<>>

ThrowReached(i) ==
    \/ injected.fault[i] = "manifestQuery" /\ AsksManifest(i)
    \/ injected.fault[i] = "folderQuery" /\ GetsToFolder(i)
    \/ injected.fault[i] = "stat" /\ GetsToStat(i)

InCanonicalZone(stamp) == [t |-> stamp.t, zone |-> "+07:00"]

\* The first source with a result, in the order manifest history (unlocked
\* chapters only), folder history, last-modified time.
ChainDate(i) ==
    IF AsksManifest(i) /\ ManifestHistory(i) /= <<>> THEN InCanonicalZone(ManifestHistory(i)[1])
    ELSE IF FolderHistory(i) /= <<>> THEN InCanonicalZone(FolderHistory(i)[1])
    ELSE InCanonicalZone(disk[i].mtime)

\* The records whose date the upload date resolver gave.
Resolved(i) ==
    /\ i \in DOMAIN NewChapters
    /\ FolderExists(i)

\* C12: when no call throws, the resolver's date is the first result in the
\* order manifest history, folder history, last-modified time, in the
\* canonical zone; the manifest history counts only for unlocked chapters.
C12_UploadDateChain ==
    Ran => \A i \in universe :
        (Resolved(i) /\ ~ThrowReached(i)) => NewChapters[i].uploadDate = ChainDate(i)

\* C12 witness: an unlocked chapter whose manifest was committed after its
\* folder is dated by the manifest's commit.
C12_Witness ==
    /\ Ran
    /\ \E i \in universe :
          /\ Resolved(i)
          /\ ~InLockedList(i)
          /\ ~ThrowReached(i)
          /\ ManifestHistory(i) /= <<>>
          /\ FolderHistory(i) /= <<>>
          /\ ManifestHistory(i)[1].t /= FolderHistory(i)[1].t
          /\ NewChapters[i].uploadDate.t = ManifestHistory(i)[1].t

\* What the next source after the call that threw gives.
NextFallbackDate(i) ==
    IF injected.fault[i] = "manifestQuery"
    THEN IF FolderHistory(i) /= <<>> THEN InCanonicalZone(FolderHistory(i)[1])
         ELSE InCanonicalZone(disk[i].mtime)
    ELSE IF injected.fault[i] = "folderQuery" THEN InCanonicalZone(disk[i].mtime)
    ELSE [t |-> now, zone |-> "+07:00"]

\* C13 as claimed: a call that throws only skips to the next source, the
\* current time coming last.
C13_FailureSkipsToNextSource ==
    Ran => \A i \in universe :
        (Resolved(i) /\ ThrowReached(i)) => NewChapters[i].uploadDate = NextFallbackDate(i)

\* C13 amended: a call that throws ends the chain at once with the current
\* time; the run goes on and every record has a timestamp.
C13_FailureGivesCurrentTime ==
    /\ (exitCode /= "none" /\ config.content = "json" /\ config.hasLockedChapters
           /\ ~injected.writeThrows) => Ran
    /\ Ran => \A i \in universe :
          (Resolved(i) /\ ThrowReached(i)) =>
              NewChapters[i].uploadDate = [t |-> now, zone |-> "+07:00"]

\* C13 witness: the manifest query throws for a chapter whose folder has an
\* older history entry, and the chapter is dated now.
C13_Witness ==
    /\ Ran
    /\ \E i \in universe :
          /\ Resolved(i)
          /\ injected.fault[i] = "manifestQuery"
          /\ AsksManifest(i)
          /\ FolderHistory(i) /= <<>>
          /\ FolderHistory(i)[1].t < now
          /\ NewChapters[i].uploadDate.t = now

\* A generate run has just ended, in whatever way.
RunEnded == exitCode /= "none"

ConfiguredViews == IF config.views /= <<>> THEN config.views[1] ELSE 0

\* C14: the views of the new catalog's manga section are those of the
\* previous catalog when the run loaded one, and the configuration's views
\* (0 when it has none) when it loaded none.
C14_TotalViewsCarried ==
    Ran =>
        mangaJson.manga.views =
            IF previous /= <<>> THEN previous[1].manga.views ELSE <<ConfiguredViews>>

\* C14 witness: the previous catalog's views differ from the configured
\* ones and are the ones kept.
C14_Witness ==
    /\ Ran
    /\ previous /= <<>>
    /\ previous[1].manga.views /= <<ConfiguredViews>>
    /\ mangaJson.manga.views = previous[1].manga.views

\* C15: the manga section has endChapter exactly when the configured status
\* is END and the configuration has an endChapter, and then it is that one;
\* status END without endChapter does not keep the run from writing.
C15_EndChapterOnlyWhenEnded ==
    /\ Ran =>
          /\ mangaJson.manga.endChapter /= <<>>
                <=> (config.status = "END" /\ config.endChapter /= <<>>)
          /\ mangaJson.manga.endChapter /= <<>> =>
                mangaJson.manga.endChapter = config.endChapter
    /\ (/\ RunEnded
        /\ config.content = "json"
        /\ config.hasLockedChapters
        /\ ~injected.writeThrows
        /\ config.status = "END"
        /\ config.endChapter = <<>>) => Ran

\* C15 witness: the previous catalog had an endChapter, the new one has not.
C15_Witness ==
    /\ Ran
    /\ previous /= <<>>
    /\ previous[1].manga.endChapter /= <<>>
    /\ mangaJson.manga.endChapter = <<>>

\* C16 as claimed: a generate run leaves manga.json either as the complete
\* new catalog or as it was before the run.
C16_AllOrNothing ==
    [][RunEnded' => \/ exitCode' = "exit0" /\ mangaJson'.parsable
                    \/ mangaJson' = mangaJson]_vars

\* C17: a run that cannot read the configuration ends with a non-zero
\* outcome and manga.json untouched; a run whose write fails ends with a
\* non-zero outcome; manifest, history, stat and enumeration failures alone
\* never give a non-zero outcome.
C17_ExitOutcomes ==
    [][RunEnded' =>
          /\ config.content /= "json" => (exitCode' = "exit1" /\ mangaJson' = mangaJson)
          /\ injected'.writeThrows => exitCode' /= "exit0"
          /\ (/\ config.content = "json"
              /\ config.hasLockedChapters
              /\ ~injected'.writeThrows) => exitCode' = "exit0"]_vars

\* C17 witness: the configuration is missing, a catalog exists, the run has
\* ended with exit code 1.
C17_Witness ==
    /\ exitCode = "exit1"
    /\ config.content = "missing"
    /\ mangaJson.parsable
    /\ ~injected.writeThrows

\* C18 as claimed: with a configuration that parses, reconciliation returns.
C18_ReconciliationNeverAborts ==
    (RunEnded /\ config.content = "json") => exitCode /= "TypeError"

\* C19 as claimed: every key of a written catalog is a chapter identity,
\* and no two keys are the same identity (both special, or the same number).
C19_KeysAreDistinctIdentities ==
    Ran => \A i, j \in DOMAIN NewChapters :
        /\ i \in SpecialNames \cup DOMAIN NumberedValue
        /\ i /= j => SortKeyOf(i) /= SortKeyOf(j)

\* The catalog the run loaded, its records' locked flags replaced.
WithLockedFlags(catalog, flags) ==
    [catalog EXCEPT !.chapters = [i \in DOMAIN catalog.chapters |->
                                     [catalog.chapters[i] EXCEPT !.locked = flags[i]]]]

\* C20: the chapter map and lastChapterUpdate of a run are what the same
\* run yields from a previous catalog that differs in its records' locked
\* flags only.
C20_IndependentOfOldLockedFlags ==
    (Ran /\ previous /= <<>>) =>
        \A flags \in [DOMAIN previous[1].chapters -> BOOLEAN] :
        \A sortedChapterNames \in SortByChapterValue(allChapterNames(enumerated, config)) :
            LET other == generateChaptersData(config,
                             <<WithLockedFlags(previous[1], flags)>>, enumerated,
                             sortedChapterNames, disk, gitlog, injected.fault, now)
            IN  /\ other.chapters = NewChapters
                /\ other.lastChapterUpdate = mangaJson.lastChapterUpdate

\* C20 witness: a record that was unlocked is now listed and without folder,
\* and keeps its earlier date.
C20_Witness ==
    /\ Ran
    /\ \E i \in DOMAIN NewChapters :
          /\ HadRecord(i)
          /\ ~OldRecord(i).locked
          /\ InLockedList(i)
          /\ ~FolderExists(i)
          /\ NewChapters[i].uploadDate = OldRecord(i).uploadDate
          /\ NewChapters[i].uploadDate.t < now

\* C21: a record whose folder exists is dated by the upload date resolver
\* (the chain's date, or the current time when a call threw), whatever date
\* the previous catalog holds for it.
C21_ExistingFolderDatedByResolver ==
    Ran => \A i \in universe :
        Resolved(i) =>
            NewChapters[i].uploadDate =
                IF ThrowReached(i) THEN [t |-> now, zone |-> "+07:00"] ELSE ChainDate(i)

\* C21 witness: a locked chapter with folder and an older date in the
\* previous catalog gets the resolver's date.
C21_Witness ==
    /\ Ran
    /\ \E i \in universe :
          /\ Resolved(i)
          /\ InLockedList(i)
          /\ HadRecord(i)
          /\ OldRecord(i).locked
          /\ OldRecord(i).uploadDate.t < NewChapters[i].uploadDate.t

\* The manifest.json files of the repository.
AllManifests ==
    {name \in universe :
        disk[name].kind = "dir" /\ disk[name].manifest.content /= "missing"}

\* The pages array of a manifest file, <<>> when it has none.
PagesOf(file) ==
    IF file.content = "json" /\ file.json.pages /= undefined
    THEN file.json.pages[1]
    ELSE <<>>

\* The manifests with a non-empty pages array whose first page is a page URL.
UnencryptedManifests ==
    {name \in AllManifests :
        PagesOf(disk[name].manifest) /= <<>> /\ PagesOf(disk[name].manifest)[1] = PAGE}

C24_UnlockedHasFolder ==
    Ran => \A i \in DOMAIN NewChapters : ~NewChapters[i].locked => disk[i].kind = "dir"

\* C24 witness: a catalog with an unlocked record, and a record without
\* folder that is dated now for want of a previous one, which is locked.
C24_Witness ==
    /\ Ran
    /\ \E i, j \in DOMAIN NewChapters :
          /\ ~NewChapters[i].locked
          /\ ~FolderExists(j)
          /\ ~HadRecord(j)
          /\ NewChapters[j].locked
          /\ NewChapters[j].uploadDate = [t |-> now, zone |-> "+07:00"]

\* The run that has just ended met no failing call.
NothingFailed ==
    /\ Ran
    /\ ~injected.readdirThrows
    /\ \A i \in universe : injected.fault[i] = "none"

\* What generateChaptersData gives at the time clock from the catalog just
\* written, with disk, history log and configuration as they are.
Regenerated(clock) ==
    {generateChaptersData(config, <<mangaJson>>, allFolders, sortedChapterNames,
                          disk, gitlog, injected.fault, clock) :
        allFolders \in {enumerated},
        sortedChapterNames \in SortByChapterValue(allChapterNames(enumerated, config))}

LaterClocks == now..MaxClock

\* C25 as claimed: generating again from the catalog just written, nothing
\* else having changed, gives the same chapter map and lastChapterUpdate.
C25_GenerateIsFixedPoint ==
    NothingFailed =>
        \A clock \in LaterClocks : \A again \in Regenerated(clock) :
            /\ again.chapters = NewChapters
            /\ again.keys = mangaJson.keys
            /\ again.lastChapterUpdate = mangaJson.lastChapterUpdate

\* C25 amended: the chapter map is the same; lastChapterUpdate is the same
\* when the map has a record, and the time of the later run when it has none.
C25_ChapterMapIsFixedPoint ==
    NothingFailed =>
        \A clock \in LaterClocks : \A again \in Regenerated(clock) :
            /\ again.chapters = NewChapters
            /\ again.keys = mangaJson.keys
            /\ again.lastChapterUpdate =
                   IF DOMAIN NewChapters = {} THEN [t |-> clock, zone |-> "+07:00"]
                   ELSE mangaJson.lastChapterUpdate

\* C25 witness: the catalog has a record dated by the time of the run that
\* made it, and time is left for a later run.
C25_Witness ==
    /\ NothingFailed
    /\ now < MaxClock
    /\ \E i \in DOMAIN NewChapters :
          /\ ~FolderExists(i)
          /\ ~HadRecord(i)
          /\ NewChapters[i].uploadDate.t = now

\* C26: when the enumeration fails the run still writes the catalog; its
\* keys are the locked list's identities, and no record is left of a
\* chapter that is not listed, whatever views it had.
C26_EnumerationFailureKeepsLockedOnly ==
    /\ (RunEnded /\ injected.readdirThrows /\ ~injected.writeThrows
           /\ config.content = "json" /\ config.hasLockedChapters) => Ran
    /\ (Ran /\ injected.readdirThrows) =>
          /\ enumerated = <<>>
          /\ DOMAIN NewChapters = {i \in universe : InLockedList(i)}
          /\ \A i \in universe :
                (HadRecord(i) /\ ~InLockedList(i)) => i \notin DOMAIN NewChapters

\* C26 witness: a viewed, unlocked chapter whose folder is there is dropped
\* by a run whose enumeration failed.
C26_Witness ==
    /\ Ran
    /\ injected.readdirThrows
    /\ \E i \in universe :
          /\ HadRecord(i)
          /\ ~OldRecord(i).locked
          /\ OldRecord(i).views > 0
          /\ disk[i].kind = "dir"
          /\ i \notin DOMAIN NewChapters

ValidIdentity(name) == name \in SpecialNames \cup DOMAIN NumberedValue

\* C22: what the enumerator answers is, without repetition, the entries that
\* are directories, not hidden and named by a chapter identity, in ascending
\* order of sort key.
C22_EnumeratorFiltersAndSorts ==
    (RunEnded /\ ~injected.readdirThrows) =>
        /\ {enumerated[k] : k \in 1..Len(enumerated)} =
              {i \in universe : disk[i].kind = "dir" /\ i[1] /= "." /\ ValidIdentity(i)}
        /\ \A a, b \in 1..Len(enumerated) :
              a < b => /\ enumerated[a] /= enumerated[b]
                       /\ SortKeyOf(enumerated[a]) <= SortKeyOf(enumerated[b])

\* C22 witness: a file with a chapter name, a directory with another name
\* and a hidden directory are left out, several folders are given in order.
C22_Witness ==
    /\ RunEnded
    /\ ~injected.readdirThrows
    /\ Len(enumerated) >= 2
    /\ \E i, j, k \in universe :
          /\ disk[i].kind = "file" /\ ValidIdentity(i)
          /\ disk[j].kind = "dir" /\ ~ValidIdentity(j) /\ j[1] /= "."
          /\ disk[k].kind = "dir" /\ k[1] = "."

\* The views of the work that manga.json and pending-views.json hold.
CatalogViews(file) == IF file.parsable THEN file.manga.views[1] ELSE 0

PendingViews(file) == IF file.content = "json" THEN file.pendingViews ELSE 0

\* A step of update-views: no generate run ends, and a file other than by
\* the counting of a reader changes.
UpdateViewsStep ==
    /\ exitCode' = "none"
    /\ \/ mangaJson' /= mangaJson
       \/ PendingViews(pendingData') < PendingViews(pendingData)

\* C27 as claimed: an update-views run keeps the sum of the catalog's views
\* and the pending views, leaves no pending views once it has added them,
\* and below the threshold writes neither file.
C27_PendingViewsAddedOnce ==
    [][/\ UpdateViewsStep =>
             /\ CatalogViews(mangaJson') + PendingViews(pendingData')
                    = CatalogViews(mangaJson) + PendingViews(pendingData)
             /\ CatalogViews(mangaJson') > CatalogViews(mangaJson) =>
                    PendingViews(pendingData') = 0
       /\ (/\ exitCode' = "none"
           /\ pendingData.content = "json"
           /\ pendingData.pendingViews < 1
           /\ pendingData'.pendingViews <= pendingData.pendingViews) =>
             (mangaJson' = mangaJson /\ pendingData' = pendingData)]_vars

\* C28: after an encryption run, every manifest with a pages array that
\* encryptManifest answered true for has all its pages encrypted once,
\* encryptManifest applied to it again answers false and leaves the file as
\* it is, and no page of a processed manifest that was already encrypted has
\* been encrypted again.
C28_EncryptionIsIdempotent ==
    encryption.ran =>
        \A name \in encryption.manifestsToProcess :
            LET before == encryption.before[name]
                after == disk[name].manifest
            IN  /\ encryption.returned[name] =>
                      /\ \A i \in 1..Len(PagesOf(after)) :
                            isEncrypted(PagesOf(after)[i])
                      /\ ~encryptManifest(after).returned
                      /\ encryptManifest(after).file = after
                /\ \A i \in 1..Len(PagesOf(before)) :
                      isEncrypted(PagesOf(before)[i]) =>
                          PagesOf(after)[i] = PagesOf(before)[i]

====
